---- MODULE Spec2Model ----
(***************************************************************************)
(* A model of pathabbrev (src/pathabbrev.go): the registry of root        *)
(* prefixes (getEnvs, EnvPrefix), the project-root probe (sourceRoot),     *)
(* the segment shortening rule (shorten) and the composition of the        *)
(* abbreviated path (Shorten), driven by main.                             *)
(*                                                                         *)
(* A string is a sequence of code points, each written as a one-character  *)
(* TLA+ string; a terminal control sequence (opaque, produced by the ansi  *)
(* library) is a single element of such a sequence.                        *)
(***************************************************************************)
EXTENDS Integers, Sequences, FiniteSets, TLC

VARIABLES
    environ,    \* the process environment: variable name -> value
    files,      \* the clean paths that exist; a relative one is relative to the working directory
    pc,         \* main's position: "start", "done" (paths printed) or "usage" (exit status 1)
    flags,      \* the parsed command-line flags
    p,          \* the pathShortener main builds
    args,       \* flag.Args()
    calls,      \* one record per Shorten call: its input, its locals and its result
    exitCode

vars == <<environ, files, pc, flags, p, args, calls, exitCode>>

-----------------------------------------------------------------------------
(* The string functions of Go's standard library that the program uses.    *)

homeSigil == <<"~">>

pathSeparator == <<"/">>

HasPrefix(s, prefix) ==
    /\ Len(prefix) <= Len(s)
    /\ SubSeq(s, 1, Len(prefix)) = prefix

HasSuffix(s, suffix) ==
    /\ Len(suffix) <= Len(s)
    /\ SubSeq(s, Len(s) - Len(suffix) + 1, Len(s)) = suffix

TrimSuffix(s, suffix) ==
    IF HasSuffix(s, suffix) THEN SubSeq(s, 1, Len(s) - Len(suffix)) ELSE s

\* strings.Index: the position of the first occurrence of sep in s, 0 when absent
Index(s, sep) ==
    LET at == {i \in 1..(Len(s) - Len(sep) + 1) : SubSeq(s, i, i + Len(sep) - 1) = sep}
    IN  IF at = {} THEN 0 ELSE CHOOSE i \in at : \A j \in at : i <= j

RECURSIVE Count(_, _)
Count(s, sep) ==
    LET i == Index(s, sep)
    IN  IF i = 0 THEN 0 ELSE 1 + Count(SubSeq(s, i + Len(sep), Len(s)), sep)

RECURSIVE Split(_, _)
Split(s, sep) ==
    LET i == Index(s, sep)
    IN  IF i = 0
        THEN <<s>>
        ELSE <<SubSeq(s, 1, i - 1)>> \o Split(SubSeq(s, i + Len(sep), Len(s)), sep)

RECURSIVE Join(_, _)
Join(elems, sep) ==
    IF elems = <<>> THEN <<>>
    ELSE IF Len(elems) = 1 THEN elems[1]
    ELSE elems[1] \o sep \o Join(Tail(elems), sep)

WhiteSpace == {" ", "\t", "\n", "\r"}

RECURSIVE TrimLeft(_)
TrimLeft(s) ==
    IF s # <<>> /\ Head(s) \in WhiteSpace THEN TrimLeft(Tail(s)) ELSE s

RECURSIVE TrimRight(_)
TrimRight(s) ==
    IF s # <<>> /\ s[Len(s)] \in WhiteSpace
    THEN TrimRight(SubSeq(s, 1, Len(s) - 1))
    ELSE s

TrimSpace(s) == TrimRight(TrimLeft(s))

\* utf8.RuneCountInString: the number of code points
RuneCountInString(s) == Len(s)

\* filepath.Clean on the segments of a path: "" and "." are dropped, ".."
\* removes the segment before it (or is kept at the front of a relative path)
RECURSIVE CleanSegments(_, _, _)
CleanSegments(segs, out, rooted) ==
    IF segs = <<>> THEN out
    ELSE LET s == Head(segs)
             rest == Tail(segs)
         IN  IF s = <<>> \/ s = <<".">>
             THEN CleanSegments(rest, out, rooted)
             ELSE IF s = <<".", ".">>
             THEN IF out # <<>> /\ out[Len(out)] # <<".", ".">>
                  THEN CleanSegments(rest, SubSeq(out, 1, Len(out) - 1), rooted)
                  ELSE IF rooted
                  THEN CleanSegments(rest, out, rooted)
                  ELSE CleanSegments(rest, Append(out, s), rooted)
             ELSE CleanSegments(rest, Append(out, s), rooted)

Clean(path) ==
    IF path = <<>> THEN <<".">>
    ELSE LET rooted == HasPrefix(path, pathSeparator)
             body == Join(CleanSegments(Split(path, pathSeparator), <<>>, rooted), pathSeparator)
         IN  IF rooted THEN pathSeparator \o body
             ELSE IF body = <<>> THEN <<".">> ELSE body

\* filepath.Join(dir, file): the non-empty elements joined by the separator,
\* then cleaned; "" when every element is empty
filepathJoin(dir, file) ==
    LET elems == SelectSeq(<<dir, file>>, LAMBDA e : e # <<>>)
    IN  IF elems = <<>> THEN <<>> ELSE Clean(Join(elems, pathSeparator))

\* regexp: \w is the ASCII class [0-9A-Za-z_]
WordChars ==
    { "a", "b", "c", "d", "e", "f", "g", "h", "i", "j", "k", "l", "m",
      "n", "o", "p", "q", "r", "s", "t", "u", "v", "w", "x", "y", "z",
      "A", "B", "C", "D", "E", "F", "G", "H", "I", "J", "K", "L", "M",
      "N", "O", "P", "Q", "R", "S", "T", "U", "V", "W", "X", "Y", "Z",
      "0", "1", "2", "3", "4", "5", "6", "7", "8", "9", "_" }

-----------------------------------------------------------------------------
(* The program.                                                            *)

\* the ansi library's control sequences, opaque: one element each
Reset == <<"ESC[0m">>

ColorCode(attr) == <<"ESC[" \o attr \o "m">>

colorCode(attr) == IF attr = "[none]" THEN Reset ELSE ColorCode(attr)

\* a func(string) string of the colorizer: what it puts before and after its argument
noop == [pre |-> <<>>, post |-> <<>>]

Apply(f, s) == f.pre \o s \o f.post

escape(escapeColors, s) ==
    IF escapeColors THEN <<"%", "{">> \o s \o <<"%", "}">> ELSE s

makeColorizer(escapeColors, attr, reset) ==
    [pre |-> escape(escapeColors, attr), post |-> escape(escapeColors, reset)]

\* the keys of colorConfigSettings and the colorizer field each one sets
colorConfigSettings ==
    [ellipsis |-> "Ellipsis", root |-> "EnvRoot", project |-> "Project",
     separator |-> "Separator", default |-> "Default"]

splitIdentifierAttribute(parts) ==
    IF Len(parts) # 2 THEN <<"", "">> ELSE <<parts[1], parts[2]>>

\* colorDef is given as split(colorDef) with each element already cut at "="
\* (and its empty parts dropped): a sequence of sequences of plain strings
RECURSIVE applyColorSpecs(_, _, _)
applyColorSpecs(c, specs, escapeColors) ==
    IF specs = <<>> THEN c
    ELSE LET ia == splitIdentifierAttribute(Head(specs))
             next == IF ia[1] \in DOMAIN colorConfigSettings
                     THEN [c EXCEPT ![colorConfigSettings[ia[1]]] =
                              makeColorizer(escapeColors, colorCode(ia[2]), Reset)]
                     ELSE c
         IN  applyColorSpecs(next, Tail(specs), escapeColors)

createColorizer(colorDef, escapeColors) ==
    applyColorSpecs(
        [EnvRoot |-> noop, Project |-> noop, Separator |-> noop,
         Ellipsis |-> noop, Default |-> noop, None |-> noop],
        colorDef, escapeColors)

RECURSIVE trimmedStrings(_)
trimmedStrings(inputSegments) ==
    IF inputSegments = <<>> THEN <<>>
    ELSE LET trimmed == TrimSpace(Head(inputSegments))
         IN  IF trimmed # <<>>
             THEN <<trimmed>> \o trimmedStrings(Tail(inputSegments))
             ELSE trimmedStrings(Tail(inputSegments))

splitSep(s, sep) == trimmedStrings(Split(s, sep))

split(s) == splitSep(s, <<",">>)

\* stripTrailingSlash without the trim
stripTrailingSlash_Keep(dir) == dir

stripTrailingSlash(dir) ==
    IF Len(dir) <= 1 THEN dir ELSE TrimSuffix(dir, pathSeparator)

Getenv(env, name) == IF name \in DOMAIN env THEN env[name] ELSE <<>>

RECURSIVE namedEnvs(_, _)
namedEnvs(env, envNames) ==
    IF envNames = <<>> THEN <<>>
    ELSE LET envName == Head(envNames)
             envValue == Getenv(env, envName)
         IN  IF TrimSpace(envName) # <<>> /\ envValue # <<>>
             THEN <<[name |-> <<"$">> \o envName, value |-> stripTrailingSlash(envValue)]>>
                  \o namedEnvs(env, Tail(envNames))
             ELSE namedEnvs(env, Tail(envNames))

homeEnvs(homeDirs) ==
    [i \in 1..Len(homeDirs) |-> [name |-> homeSigil, value |-> stripTrailingSlash(homeDirs[i])]]

getEnvs(env, envNames, homeDirs) == namedEnvs(env, envNames) \o homeEnvs(homeDirs)

\* the test of EnvPrefix's loop body without the separator after the value
envMatches_StringPrefix(envRep, path) ==
    \/ path = envRep.value
    \/ HasPrefix(path, envRep.value)

\* the test of EnvPrefix's loop body
envMatches(envRep, path) ==
    \/ path = envRep.value
    \/ HasPrefix(path, envRep.value \o pathSeparator)

\* EnvPrefix's loop keeping the last entry that matches instead of returning at the first
EnvPrefixIndex_Last(e, path, i) ==
    LET m == {j \in i..Len(e) : path = e[j].value \/ HasPrefix(path, e[j].value \o pathSeparator)}
    IN  IF m = {} THEN 0 ELSE CHOOSE j \in m : \A k \in m : k <= j

\* the index of the entry at which EnvPrefix's loop returns, 0 when it runs to the end
RECURSIVE EnvPrefixIndex(_, _, _)
EnvPrefixIndex(e, path, i) ==
    IF i > Len(e) THEN 0
    ELSE IF envMatches(e[i], path) THEN i
    ELSE EnvPrefixIndex(e, path, i + 1)

EnvPrefixAt(e, path) == EnvPrefixIndex(e, path, 1)

\* EnvPrefix counting the separators of the value without the + 1
EnvPrefix_NoPlusOne(e, path) ==
    LET i == EnvPrefixAt(e, path)
    IN  IF i = 0
        THEN [prefix |-> <<>>, replacedSegments |-> 0, index |-> 0]
        ELSE [prefix |-> e[i].name,
              replacedSegments |-> Count(e[i].value, pathSeparator),
              index |-> i]

EnvPrefix(e, path) ==
    LET i == EnvPrefixAt(e, path)
    IN  IF i = 0
        THEN [prefix |-> <<>>, replacedSegments |-> 0, index |-> 0]
        ELSE [prefix |-> e[i].name,
              replacedSegments |-> Count(e[i].value, pathSeparator) + 1,
              index |-> i]

fileExists(fs, file) == file \in fs

sourceRoot(ps, fs, dir) ==
    \E k \in 1..Len(ps.rootFiles) : fileExists(fs, filepathJoin(dir, ps.rootFiles[k]))

\* shortenRegex `^([\w-])(.{2}).*` : whether it matches (only at the start;
\* "." does not match a newline)
shortenRegexMatches(s) ==
    /\ Len(s) >= 3
    /\ s[1] \in WordChars \cup {"-"}
    /\ s[2] # "\n"
    /\ s[3] # "\n"

\* the end of the match: ".*" runs to the first newline or the end
shortenRegexEnd(s) ==
    LET nl == {i \in 4..Len(s) : s[i] = "\n"}
    IN  IF nl = {} THEN Len(s) ELSE (CHOOSE i \in nl : \A j \in nl : i <= j) - 1

\* the replacement with "$1" alone: the first character only
shortenRegexReplace_FirstOnly(s, Ellipsis) ==
    IF shortenRegexMatches(s)
    THEN <<s[1]>> \o SubSeq(s, shortenRegexEnd(s) + 1, Len(s))
    ELSE s

\* shortenRegex.ReplaceAllString(s, "$1" + Ellipsis("$2"))
shortenRegexReplace(s, Ellipsis) ==
    IF shortenRegexMatches(s)
    THEN <<s[1]>> \o Apply(Ellipsis, SubSeq(s, 2, 3)) \o SubSeq(s, shortenRegexEnd(s) + 1, Len(s))
    ELSE s

\* shorten without the test of the abbreviate flag
shorten_IgnoreFlag(ps, pathSegment) ==
    IF RuneCountInString(pathSegment) <= 3
    THEN pathSegment
    ELSE shortenRegexReplace(pathSegment, ps.colorizer.Ellipsis)

\* shorten that never shortens
shorten_Never(ps, pathSegment) == pathSegment

shorten(ps, pathSegment) ==
    IF ~ps.abbreviate \/ RuneCountInString(pathSegment) <= 3
    THEN pathSegment
    ELSE shortenRegexReplace(pathSegment, ps.colorizer.Ellipsis)

\* the dir of shortenedSegment(i): strings.Join(segments[:i+1], pathSeparator)
segmentDir(segments, i) == Join(SubSeq(segments, 1, i + 1), pathSeparator)

shortenedSegment(ps, fs, segments, i) ==
    LET dir == segmentDir(segments, i)
    IN  IF sourceRoot(ps, fs, dir)
        THEN Apply(ps.colorizer.Project, segments[i + 1])
        ELSE Apply(ps.colorizer.Default, shorten(ps, segments[i + 1]))

\* the col chosen for the last segment
endColorizer(ps, fs, path) ==
    IF sourceRoot(ps, fs, path) THEN ps.colorizer.Project ELSE ps.colorizer.Default

\* Shorten with its locals: segments are indexed from 0 in the code and from
\* 1 here, so the code's segments[i] is segments[i + 1]
ShortenCall(ps, fs, path) ==
    IF path = <<>>
    THEN [path |-> path, prefix |-> <<>>, start |-> 0, index |-> 0, segments |-> <<>>,
          shortenedSegments |-> <<>>, probed |-> <<>>, result |-> <<>>]
    ELSE
    LET ep == EnvPrefix(ps.envs, path)
        start == ep.replacedSegments
        segments == Split(path, pathSeparator)
        endSegment == Len(segments) - 1
        head == IF ep.prefix # <<>> THEN <<Apply(ps.colorizer.EnvRoot, ep.prefix)>> ELSE <<>>
        middle == [k \in 1..(IF endSegment > start THEN endSegment - start ELSE 0) |->
                      shortenedSegment(ps, fs, segments, start + k - 1)]
        last == IF endSegment >= start
                THEN <<Apply(endColorizer(ps, fs, path), segments[endSegment + 1])>>
                ELSE <<>>
        dirs == [k \in 1..(IF endSegment > start THEN endSegment - start ELSE 0) |->
                      segmentDir(segments, start + k - 1)]
        shortenedSegments == head \o middle \o last
    IN  [path |-> path, prefix |-> ep.prefix, start |-> start, index |-> ep.index,
         segments |-> segments,
         shortenedSegments |-> shortenedSegments,
         probed |-> dirs \o (IF endSegment >= start THEN <<path>> ELSE <<>>),
         result |-> Join(shortenedSegments, Apply(ps.colorizer.Separator, pathSeparator))]

Shorten(ps, fs, path) == ShortenCall(ps, fs, path).result

-----------------------------------------------------------------------------
(* The inputs: the environment, the file system, the flags, the paths.     *)

MaxTail == 2

MaxHomes == 2

sRoot == <<"/">>
sHome == <<"/", "h", "o", "m", "e">>
sHomeU == <<"/", "h", "o", "m", "e", "/", "u">>
sHomeU2 == <<"/", "h", "o", "m", "e", "/", "u", "2">>
sHomeUGo == <<"/", "h", "o", "m", "e", "/", "u", "/", "g", "o">>
sOther == <<"o", "t", "h", "e", "r">>
sDir == <<"d", "i", "r">>
sDotConfig == <<".", "c", "o", "n", "f", "i", "g">>
sGit == <<".", "g", "i", "t">>
sPom == <<"p", "o", "m", ".", "x", "m", "l">>
sGOPATH == <<"G", "O", "P", "A", "T", "H">>
sW == <<"W">>

\* sequences over S of length at most n
RECURSIVE SeqsUpTo(_, _)
SeqsUpTo(S, n) ==
    IF n = 0 THEN {<<>>}
    ELSE LET shorter == SeqsUpTo(S, n - 1)
         IN  shorter \cup {Append(q, x) : q \in {r \in shorter : Len(r) = n - 1}, x \in S}

\* each element of tail appended to base after a separator
RECURSIVE WithTail(_, _)
WithTail(base, tail) ==
    IF tail = <<>> THEN base
    ELSE WithTail(base \o pathSeparator \o Head(tail), Tail(tail))

TailSegments == {<<>>, sOther, sDir, sDotConfig}

Bases == {<<>>, sHomeU, sHomeU2, sHomeUGo, sDir}

\* a directory name holding a newline, which "." of shortenRegex does not match
sNewline == <<"/", "a", "b", "c", "d", "\n", "e", "/", "d", "i", "r">>

Paths == {WithTail(b, t) : b \in Bases, t \in SeqsUpTo(TailSegments, MaxTail)} \cup {sNewline}

ArgLists == {<<>>} \cup {<<x>> : x \in Paths} \cup {<<sHomeU, sRoot>>}

\* -color, as createColorizer reads it
ColorDefs ==
    { <<>>,
      << <<"project", "blue+b">>, <<"root", "245">>, <<"separator", "240">>,
         <<"ellipsis", "247">>, <<"bogus", "1">>, <<"default">>, <<"none", "red">>,
         <<"default", "green">>, <<"default", "[none]">> >> }

Environs ==
    { <<>>,
      (sGOPATH :> (sHomeUGo \o pathSeparator)) }

CandidateFiles ==
    { sGit,
      pathSeparator \o sGit,
      sHomeU \o pathSeparator \o sOther \o pathSeparator \o sPom }

Flags ==
    [ projectFiles : {sGit, sGit \o <<",", " ">> \o sPom},
      home : {sHomeU},
      envRoots : {sGOPATH},
      color : ColorDefs,
      escapeColor : BOOLEAN,
      abbrev : BOOLEAN ]

\* the registries: named roots equal to, above and below a home directory,
\* values ending in one or two separators, and the root directory as home
RootEnvirons ==
    { <<>>,
      (sGOPATH :> (sHomeUGo \o pathSeparator)),
      (sGOPATH :> sHomeU) @@ (sW :> sHomeUGo),
      (sGOPATH :> (sHomeUGo \o pathSeparator \o pathSeparator)) }

HomeDirs == {sHomeU \o pathSeparator, sHome, sRoot}

\* the paths looked up in the registries: the roots themselves, paths below
\* them, beside them (/home/u2) and outside them
RootTailSegments == {<<>>, sOther}

RootBases == {<<>>, sHome, sHomeU, sHomeU2, sHomeUGo}

RootPaths == {WithTail(b, t) : b \in RootBases, t \in SeqsUpTo(RootTailSegments, MaxTail)}

RootArgLists == {<<>>} \cup {<<x>> : x \in RootPaths}

RootFlags ==
    [ projectFiles : {sGit},
      home : {Join(h, <<",">>) : h \in SeqsUpTo(HomeDirs, MaxHomes)},
      envRoots : {sGOPATH, sGOPATH \o <<",">> \o sW, sW \o <<",", " ">> \o sGOPATH},
      color : {<<>>},
      escapeColor : {FALSE},
      abbrev : {TRUE} ]

-----------------------------------------------------------------------------
(* main.                                                                   *)

\* the pathShortener literal of main
newShortener(f, env) ==
    [ abbreviate |-> f.abbrev,
      rootFiles |-> split(f.projectFiles),
      envs |-> getEnvs(env, split(f.envRoots), split(f.home)),
      colorizer |-> createColorizer(f.color, f.escapeColor) ]

zeroShortener ==
    [ abbreviate |-> FALSE, rootFiles |-> <<>>, envs |-> <<>>,
      colorizer |-> createColorizer(<<>>, FALSE) ]

zeroFlags ==
    [ projectFiles |-> <<>>, home |-> <<>>, envRoots |-> <<>>, color |-> <<>>,
      escapeColor |-> FALSE, abbrev |-> FALSE ]

Start(E, F) ==
    /\ environ \in E
    /\ files \in F
    /\ pc = "start"
    /\ flags = zeroFlags
    /\ p = zeroShortener
    /\ args = <<>>
    /\ calls = <<>>
    /\ exitCode = 0

\* main with no path argument: the usage message and exit status 1
MainUsage(F) ==
    /\ pc = "start"
    /\ \E f \in F :
        /\ flags' = f
        /\ args' = <<>>
    /\ pc' = "usage"
    /\ exitCode' = 1
    /\ UNCHANGED <<environ, files, p, calls>>

\* main with path arguments: one Shorten call and one output line per argument
MainRun(F, A) ==
    /\ pc = "start"
    /\ \E f \in F, a \in A :
        /\ Len(a) > 0
        /\ flags' = f
        /\ args' = a
        /\ p' = newShortener(f, environ)
        /\ calls' = [k \in 1..Len(a) |-> ShortenCall(newShortener(f, environ), files, a[k])]
    /\ pc' = "done"
    /\ exitCode' = 0
    /\ UNCHANGED <<environ, files>>

Init == Start(Environs, SUBSET CandidateFiles)

Next == MainUsage(Flags) \/ MainRun(Flags, ArgLists)

Spec == Init /\ [][Next]_vars

InitRoots == Start(RootEnvirons, {{}})

NextRoots == MainUsage(RootFlags) \/ MainRun(RootFlags, RootArgLists)

SpecRoots == InitRoots /\ [][NextRoots]_vars

-----------------------------------------------------------------------------
(* What the properties below speak of, stated without the program's own    *)
(* operators.                                                              *)

Range(s) == {s[i] : i \in DOMAIN s}

\* the elements of a string that are decoration: the control sequences of
\* the colorizer c and the characters of the %{ %} wrapper (no path of the
\* model holds one of these)
DecorationOf(c) ==
    {"%", "{", "}"} \cup UNION {Range(c[r].pre) \cup Range(c[r].post) : r \in DOMAIN c}

Undecorate(c, s) == SelectSeq(s, LAMBDA t : t \notin DecorationOf(c))

\* root is path itself or a directory above it
Covers(root, path) ==
    \/ path = root
    \/ /\ Len(path) > Len(root)
       /\ \A i \in 1..Len(root) : path[i] = root[i]
       /\ path[Len(root) + 1] = "/"

\* the registry entries that cover path, and the first of them (0: none)
Covering(e, path) == {i \in 1..Len(e) : Covers(e[i].value, path)}

FirstCovering(e, path) ==
    IF Covering(e, path) = {} THEN 0
    ELSE CHOOSE i \in Covering(e, path) : \A j \in Covering(e, path) : i <= j

Separators(s) == Cardinality({i \in 1..Len(s) : s[i] = "/"})

\* the directory dir holds one of the configured markers: the file system
\* resolves dir + "/" + marker (for the empty dir of an absolute path's
\* first segment that is the root directory)
IsProjectRoot(dir) ==
    \E k \in 1..Len(p.rootFiles) : Clean(dir \o <<"/">> \o p.rootFiles[k]) \in files

\* the cumulative directory path up to and including segment i (from 0)
Cumulative(c, i) == Join(SubSeq(c.segments, 1, i + 1), <<"/">>)

EndSegment(c) == Len(c.segments) - 1

\* the segments Shorten emits, and the piece it emits for segment i
Emitted(c) == {i \in 0..EndSegment(c) : i >= c.start}

Piece(c, i) == c.shortenedSegments[(IF c.prefix # <<>> THEN 1 ELSE 0) + (i - c.start) + 1]

Text(c, i) == c.segments[i + 1]

FirstThree(s) == <<s[1], s[2], s[3]>>

StartsWithWordOrHyphen(s) == s # <<>> /\ s[1] \in WordChars \cup {"-"}

Calls == {calls[k] : k \in DOMAIN calls}

\* the configured root values in registry order, before stripTrailingSlash
Configured ==
    LET names == SelectSeq(split(flags.envRoots), LAMBDA n : Getenv(environ, n) # <<>>)
    IN  [i \in 1..Len(names) |-> [name |-> <<"$">> \o names[i], value |-> Getenv(environ, names[i])]]
        \o [i \in 1..Len(split(flags.home)) |-> [name |-> <<"~">>, value |-> split(flags.home)[i]]]

-----------------------------------------------------------------------------
(* The properties.                                                         *)

\* C1, as stated: a path equal to a configured home directory is abbreviated
\* to the home label "~" alone.
C1_HomeAloneAsStated ==
    \A c \in Calls : \A i \in 1..Len(split(flags.home)) :
        c.path = split(flags.home)[i] =>
            /\ Undecorate(p.colorizer, c.result) = <<"~">>
            /\ Len(c.shortenedSegments) = 1

\* C1, amended: a non-empty path equal to the registry path of a home entry
\* (the configured home directory less one trailing separator) that no earlier
\* registry entry covers is abbreviated to the home label "~" alone: one piece,
\* no separator, no further segment.
C1_HomeAlone ==
    \A c \in Calls : \A i \in 1..Len(p.envs) :
        ( /\ c.path # <<>>
          /\ p.envs[i].name = <<"~">>
          /\ c.path = p.envs[i].value
          /\ \A j \in 1..(i - 1) : ~Covers(p.envs[j].value, c.path) )
        => /\ Undecorate(p.colorizer, c.result) = <<"~">>
           /\ Len(c.shortenedSegments) = 1

\* C1 witness: a call on a home directory of several segments that no earlier
\* entry covers, after a named root was put in the registry.
C1_Witness ==
    /\ pc = "done"
    /\ \E c \in Calls : \E i \in 2..Len(p.envs) :
        /\ p.envs[i].name = <<"~">>
        /\ c.path = p.envs[i].value
        /\ Separators(c.path) >= 2
        /\ \A j \in 1..(i - 1) : ~Covers(p.envs[j].value, c.path)

\* C6: EnvPrefix returns the label of the first registry entry that covers the
\* path, with (separators in its path) + 1 consumed segments, and ("", 0) when
\* none covers it; the registry lists the named roots that are set, in the
\* order their names were given, and then the home directories, in order.
C6_FirstMatchInOrder ==
    pc = "done" =>
        /\ Len(p.envs) = Len(Configured)
        /\ \A i \in 1..Len(p.envs) :
            /\ p.envs[i].name = Configured[i].name
            /\ Configured[i].value \in {p.envs[i].value, p.envs[i].value \o <<"/">>}
        /\ \A c \in Calls :
            c.path # <<>> =>
                LET i == FirstCovering(p.envs, c.path)
                IN  IF i = 0
                    THEN c.prefix = <<>> /\ c.start = 0
                    ELSE /\ c.prefix = p.envs[i].name
                         /\ c.start = Separators(p.envs[i].value) + 1

\* C6 witness: a named root and a home directory both cover the path and the
\* named root's label is returned, in a registry that also holds an entry
\* that is a string prefix of the path without covering it.
C6_Witness ==
    /\ pc = "done"
    /\ \E c \in Calls :
        /\ c.prefix # <<>>
        /\ c.prefix[1] = "$"
        /\ \E j \in 1..Len(p.envs) : p.envs[j].name = <<"~">> /\ Covers(p.envs[j].value, c.path)
        /\ \E j \in 1..Len(p.envs) :
            /\ HasPrefix(c.path, p.envs[j].value)
            /\ ~Covers(p.envs[j].value, c.path)

\* C7, as stated: no registry entry that covers the path has a longer path
\* than the entry EnvPrefix selects.
C7_LongestAsStated ==
    \A c \in Calls :
        c.index # 0 =>
            \A j \in 1..Len(p.envs) :
                Covers(p.envs[j].value, c.path) =>
                    Len(p.envs[j].value) <= Len(p.envs[c.index].value)

\* C7, amended: EnvPrefix selects the first entry in registry order that covers
\* the path; an entry that covers the path and has a longer path than the
\* selected one can only come after it in the registry.
C7_LongerOnlyLater ==
    \A c \in Calls :
        c.index # 0 =>
            /\ Covers(p.envs[c.index].value, c.path)
            /\ \A j \in 1..Len(p.envs) :
                ( /\ Covers(p.envs[j].value, c.path)
                  /\ Len(p.envs[j].value) > Len(p.envs[c.index].value) )
                => j > c.index

\* C7 witness: the selected entry is not the first of the registry, and a
\* later entry covers the path with a longer path.
C7_Witness ==
    \E c \in Calls :
        /\ c.index > 1
        /\ \E j \in 1..Len(p.envs) :
            /\ j > c.index
            /\ Covers(p.envs[j].value, c.path)
            /\ Len(p.envs[j].value) > Len(p.envs[c.index].value)

\* C9, as stated: no entry of the registry has a path ending in a separator.
C9_NoTrailingSeparatorAsStated ==
    \A i \in 1..Len(p.envs) : ~HasSuffix(p.envs[i].value, <<"/">>)

\* C9, amended: an entry's path is the configured value less at most one
\* trailing separator; it ends in a separator only when the configured value
\* is the single separator "/" or ends in two or more separators.
C9_OneSeparatorStripped ==
    pc = "done" =>
        /\ Len(p.envs) = Len(Configured)
        /\ \A i \in 1..Len(p.envs) :
            LET given == Configured[i].value
                kept == p.envs[i].value
            IN  /\ given \in {kept, kept \o <<"/">>}
                /\ HasSuffix(kept, <<"/">>) =>
                       \/ given = <<"/">>
                       \/ HasSuffix(given, <<"/", "/">>)

\* C9 witness: the registry holds a named root and a home directory that were
\* both configured with one trailing separator, which was removed.
C9_Witness ==
    /\ pc = "done"
    /\ \E i, j \in 1..Len(p.envs) :
        /\ p.envs[i].name # <<"~">>
        /\ p.envs[j].name = <<"~">>
        /\ Configured[i].value = p.envs[i].value \o <<"/">>
        /\ Configured[j].value = p.envs[j].value \o <<"/">>
        /\ ~HasSuffix(p.envs[i].value, <<"/">>)
        /\ ~HasSuffix(p.envs[j].value, <<"/">>)

\* C2, as stated: with abbreviation enabled, for a path that no root covers
\* and none of whose cumulative prefixes is a project root, every non-terminal
\* segment longer than 3 code points appears, decoration ignored, as its first
\* three code points, and the terminal segment appears whole.
C2_ThreeCodePointsAsStated ==
    \A c \in Calls :
        ( /\ p.abbreviate
          /\ c.path # <<>>
          /\ Covering(p.envs, c.path) = {}
          /\ \A i \in 0..EndSegment(c) : ~IsProjectRoot(Cumulative(c, i)) )
        => \A i \in Emitted(c) :
               Undecorate(p.colorizer, Piece(c, i)) =
                   IF i < EndSegment(c) /\ Len(Text(c, i)) > 3
                   THEN FirstThree(Text(c, i))
                   ELSE Text(c, i)

\* C2, amended: under the same conditions, every non-terminal segment longer
\* than 3 code points that begins with an ASCII letter, digit, underscore or
\* hyphen and holds no newline appears as its first three code points; a
\* non-terminal segment that begins with any other character appears whole,
\* whatever its length; and the terminal segment appears whole.
C2_ThreeCodePoints ==
    \A c \in Calls :
        ( /\ p.abbreviate
          /\ c.path # <<>>
          /\ Covering(p.envs, c.path) = {}
          /\ \A i \in 0..EndSegment(c) : ~IsProjectRoot(Cumulative(c, i)) )
        => \A i \in Emitted(c) :
               LET shown == Undecorate(p.colorizer, Piece(c, i))
                   s == Text(c, i)
               IN  /\ ( /\ i < EndSegment(c)
                        /\ Len(s) > 3
                        /\ StartsWithWordOrHyphen(s)
                        /\ "\n" \notin Range(s) ) => shown = FirstThree(s)
                   /\ (i < EndSegment(c) /\ ~StartsWithWordOrHyphen(s)) => shown = s
                   /\ i = EndSegment(c) => shown = s

\* C2 witness: such a path with a long non-terminal segment that was reduced
\* to three code points, a long one that begins with "." and a long terminal
\* segment, under a colorizer that decorates.
C2_Witness ==
    \E c \in Calls :
        /\ p.abbreviate
        /\ p.colorizer.Ellipsis # noop
        /\ Covering(p.envs, c.path) = {}
        /\ \A i \in 0..EndSegment(c) : ~IsProjectRoot(Cumulative(c, i))
        /\ \E i \in Emitted(c) :
            /\ i < EndSegment(c)
            /\ Len(Text(c, i)) > 3
            /\ StartsWithWordOrHyphen(Text(c, i))
            /\ Undecorate(p.colorizer, Piece(c, i)) = FirstThree(Text(c, i))
        /\ \E i \in Emitted(c) :
            /\ i < EndSegment(c)
            /\ Len(Text(c, i)) > 3
            /\ ~StartsWithWordOrHyphen(Text(c, i))
        /\ Len(Text(c, EndSegment(c))) > 3

\* the input of scenario D: home /home/u, abbreviation on, no decoration, no
\* marker in any directory, the path /home/u/other/dir
ScenarioD(c) ==
    /\ split(flags.home) = << <<"/", "h", "o", "m", "e", "/", "u">> >>
    /\ flags.abbrev
    /\ flags.color = <<>>
    /\ files = {}
    /\ c.path = <<"/", "h", "o", "m", "e", "/", "u", "/", "o", "t", "h", "e", "r", "/", "d", "i", "r">>

C4_ProjectRootWhole ==
    \A c \in Calls : \A i \in Emitted(c) :
        IsProjectRoot(Cumulative(c, i)) =>
            Piece(c, i) = Apply(p.colorizer.Project, Text(c, i))

\* C5: with abbreviate = false the output, decoration ignored, is the path
\* when no root covers it, and otherwise the label of the first root that
\* covers it followed by the part of the path after that root's path; every
\* emitted piece is its segment's whole text.
C5_AbbreviationOff ==
    \A c \in Calls :
        (~p.abbreviate /\ pc = "done") =>
            LET r == FirstCovering(p.envs, c.path)
            IN  /\ Undecorate(p.colorizer, c.result) =
                       IF r = 0 \/ c.path = <<>>
                       THEN c.path
                       ELSE p.envs[r].name
                            \o SubSeq(c.path, Len(p.envs[r].value) + 1, Len(c.path))
                /\ \A i \in Emitted(c) : Undecorate(p.colorizer, Piece(c, i)) = Text(c, i)

\* C5 witness: abbreviation is off, a root covers the path, and a non-terminal
\* segment that the shortening rule would reduce is emitted.
C5_Witness ==
    \E c \in Calls :
        /\ ~p.abbreviate
        /\ pc = "done"
        /\ c.prefix # <<>>
        /\ \E i \in Emitted(c) :
            /\ i < EndSegment(c)
            /\ Len(Text(c, i)) > 3
            /\ StartsWithWordOrHyphen(Text(c, i))
            /\ ~IsProjectRoot(Cumulative(c, i))

\* C8: when a segment remains after the matched root, the terminal segment is
\* emitted whole, decorated by Project if the path is a project root and by
\* None (never Default) otherwise.
C8_TerminalRole ==
    \A c \in Calls :
        (c.path # <<>> /\ EndSegment(c) >= c.start) =>
            Piece(c, EndSegment(c)) =
                IF IsProjectRoot(c.path)
                THEN Apply(p.colorizer.Project, Text(c, EndSegment(c)))
                ELSE Apply(p.colorizer.None, Text(c, EndSegment(c)))

\* C10: for an absolute path, every directory Shorten passes to sourceRoot is
\* absolute: a non-empty prefix of the path that begins with the separator.
C10_ProbesAbsolute ==
    \A c \in Calls :
        HasPrefix(c.path, <<"/">>) =>
            \A k \in 1..Len(c.probed) :
                /\ c.probed[k] # <<>>
                /\ HasPrefix(c.probed[k], <<"/">>)
                /\ HasPrefix(c.path, c.probed[k])

====
